---- MODULE Spec2Model ----
(***************************************************************************)
(* Model of faculty180_to_drupal.py: the one-shot pipeline main() that     *)
(* validates configuration, fetches faculty records, authenticates with    *)
(* Drupal (login + CSRF token) and creates one node per record, every HTTP *)
(* call going through make_request_with_retry.                             *)
(*                                                                         *)
(* The environment (the two remote APIs and the network) is the source of  *)
(* nondeterminism: each HTTP attempt either raises a RequestException      *)
(* (network error) or yields a response with some status and body.         *)
(***************************************************************************)
EXTENDS Integers, Sequences, FiniteSets, TLC

VARIABLES
    config,         \* the module-level settings read from the environment
    pc,             \* position of main()
    attempt,        \* loop variable of make_request_with_retry (0-based)
    outcomes,       \* outcomes of the attempts of the current wrapper call
    retry_sleeps,   \* time.sleep(RETRY_DELAY) calls of the current wrapper call
    ret,            \* what the last wrapper call returned
    reqs,           \* every HTTP request issued in this run, in order
    faculty_list,   \* main(): faculty_list
    cookies,        \* main(): cookies
    csrf_token,     \* main(): csrf_token
    success_count,  \* main(): success_count
    total_count,    \* main(): total_count
    i,              \* main(): 1-based loop index
    results,        \* return value of create_drupal_node, per processed record
    pauses,         \* time.sleep(1) calls between records
    exit_code       \* process exit status, -1 while running

vars == <<config, pc, attempt, outcomes, retry_sleeps, ret, reqs, faculty_list,
          cookies, csrf_token, success_count, total_count, i, results, pauses,
          exit_code>>

----------------------------------------------------------------------------
(* Bounds and program constants *)

MAX_RETRIES == 3

MaxRecords == 2

----------------------------------------------------------------------------
(* Python values *)

\* os.getenv of an unset variable
None == "<None>"

\* `not value` for an optional string
Falsy(v) == v = None \/ v = ""

ConfigVars == {"FACULTY_API_TOKEN", "DRUPAL_USERNAME", "DRUPAL_PASSWORD"}

ConfigValues == {None, "", "secret"}

\* keys of a faculty record the pipeline reads
Fields == {"name", "bio", "email", "phone", "department", "title", "office"}

\* a key that the record does not carry
Absent == "<absent>"

\* dict.get(field): None when the key is absent
Get(faculty, field) ==
    IF faculty.f[field] = Absent THEN None ELSE faculty.f[field]

AllAbsent == [k \in Fields |-> Absent]

\* elements a source response may carry: JSON objects, and one non-object
Jane == [isdict |-> TRUE,
         f |-> [AllAbsent EXCEPT !["name"] = "Jane Doe", !["bio"] = "PhD"]]
NoName == [isdict |-> TRUE, f |-> [AllAbsent EXCEPT !["email"] = "a@b.edu"]]
EmptyName == [isdict |-> TRUE, f |-> [AllAbsent EXCEPT !["name"] = ""]]
NotADict == [isdict |-> FALSE, f |-> AllAbsent]

FacultySamples == {Jane, NoName, EmptyName, NotADict}

SeqUpTo(S, n) == UNION {[1..k -> S] : k \in 0..n}

----------------------------------------------------------------------------
(* HTTP responses *)

\* body of a response: only the part the stage reads is filled in
Body(kind, list, text, jar) ==
    [kind |-> kind, list |-> list, text |-> text, jar |-> jar]

EmptyBody == Body("", <<>>, <<>>, {})

\* one attempt of requests.request: a RequestException, or a response
NetworkError == [neterr |-> TRUE, status |-> 0, body |-> EmptyBody]
Response(status, body) == [neterr |-> FALSE, status |-> status, body |-> body]

\* statuses for which raise_for_status raises
ErrorStatuses == {401, 403, 503}

\* source API bodies: not JSON, a JSON list, a single object, a string, a number
FetchBodies ==
    {Body("notjson", <<>>, <<>>, {}), Body("string", <<>>, <<>>, {}),
     Body("number", <<>>, <<>>, {})}
    \cup {Body("list", l, <<>>, {}) : l \in SeqUpTo(FacultySamples, MaxRecords)}
    \cup {Body("object", <<r>>, <<>>, {}) : r \in {Jane, NoName}}

\* login responses: the session cookie the response sets
LoginBodies == {Body("", <<>>, <<>>, {"SESS"})}

\* token responses: response.text as characters
TokenTexts == {<<>>, <<" ">>, <<"t">>, <<" ", "t", "\n">>}
TokenBodies == {Body("", <<>>, t, {}) : t \in TokenTexts}

\* node-create bodies, by the shape of the JSON they carry
NodeBodyKinds ==
    {"notjson",          \* not JSON at all
     "nid_ok",           \* {"nid": [{"value": "42"}]}
     "nid_no_value",     \* {"nid": [{}]}
     "no_nid",           \* {"title": ...}
     "nid_empty",        \* {"nid": []}
     "nid_scalars",      \* {"nid": ["42"]}
     "nid_number",       \* {"nid": 42}
     "toplevel_list"}    \* [ ... ]
NodeBodies == {Body(k, <<>>, <<>>, {}) : k \in NodeBodyKinds}

\* the responses of each endpoint that carry no error status: the endpoint's
\* usual answer with every body, and other statuses with one body each
GoodResponses(stage) ==
    CASE stage = "fetch" ->
           {Response(200, b) : b \in FetchBodies}
           \cup {Response(s, Body("notjson", <<>>, <<>>, {})) : s \in {204, 304}}
      [] stage = "login" ->
           {Response(200, b) : b \in LoginBodies}
           \cup {Response(304, Body("", <<>>, <<>>, {"SESS"}))}
      [] stage = "token" ->
           {Response(200, b) : b \in TokenBodies}
           \cup {Response(304, Body("", <<>>, <<"t">>, {}))}
      [] stage = "node" ->
           {Response(201, b) : b \in NodeBodies}
           \cup {Response(s, Body("nid_ok", <<>>, <<>>, {})) : s \in {200, 204, 304}}

\* everything one attempt of a stage's request can come back with
AttemptOutcomes(stage) ==
    {NetworkError}
    \cup {Response(s, EmptyBody) : s \in ErrorStatuses}
    \cup GoodResponses(stage)

\* the wrapper's "no response"
NoResponse == [none |-> TRUE, status |-> 0, body |-> EmptyBody]
Returned(o) == [none |-> FALSE, status |-> o.status, body |-> o.body]

----------------------------------------------------------------------------
(* make_request_with_retry *)

\* variant: only server errors raise
RaisesForStatus_Only5xx(status) == 500 <= status /\ status < 600

\* response.raise_for_status(): HTTPError for a 4xx or 5xx status
RaisesForStatus(status) == 400 <= status /\ status < 600

\* the attempt raised requests.exceptions.RequestException
AttemptFailed(o) == o.neterr \/ RaisesForStatus(o.status)

\* variant: the loop gives up one attempt early
RetriesLeft_GivesUpEarly(a) == a < MAX_RETRIES - 2

\* `attempt < MAX_RETRIES - 1`: another attempt follows the failed one
RetriesLeft(a) == a < MAX_RETRIES - 1

\* truth value of an Optional[Response]: None is false, and a Response is
\* true exactly when raise_for_status would not raise
Truthy(r) == ~r.none /\ ~RaisesForStatus(r.status)

\* entering the wrapper: `for attempt in range(MAX_RETRIES)` starts at 0
StartCall ==
    /\ attempt' = 0
    /\ outcomes' = <<>>
    /\ retry_sleeps' = 0

\* the caller is done with the wrapper's result: the response and the
\* wrapper's locals go out of scope
EndCall ==
    /\ attempt' = 0
    /\ outcomes' = <<>>
    /\ retry_sleeps' = 0
    /\ ret' = NoResponse

\* DRUPAL_CONTENT_TYPE, at its default
DRUPAL_CONTENT_TYPE == "faculty_profile"

\* variant: the job title goes to a field named after the source key
field_mapping_TitleMisnamed ==
    [k \in {"email", "phone", "department", "title", "office"} |->
        CASE k = "email"      -> "field_email"
          [] k = "phone"      -> "field_phone"
          [] k = "department" -> "field_department"
          [] k = "title"      -> "field_title"
          [] k = "office"     -> "field_office_location"]

\* field_mapping of create_drupal_node: source key to Drupal field
field_mapping ==
    [k \in {"email", "phone", "department", "title", "office"} |->
        CASE k = "email"      -> "field_email"
          [] k = "phone"      -> "field_phone"
          [] k = "department" -> "field_department"
          [] k = "title"      -> "field_job_title"
          [] k = "office"     -> "field_office_location"]

\* node_data of create_drupal_node (lines 139-163): type, title and status
\* always; body when bio is truthy; each mapped field when its source value
\* is truthy
node_data(faculty) ==
    LET mapped == {k \in DOMAIN field_mapping : ~Falsy(Get(faculty, k))}
        keys   == {"type", "title", "status"}
                  \cup (IF ~Falsy(Get(faculty, "bio")) THEN {"body"} ELSE {})
                  \cup {field_mapping[k] : k \in mapped}
    IN  [d \in keys |->
            CASE d = "type"   -> <<[target_id |-> DRUPAL_CONTENT_TYPE]>>
              [] d = "title"  ->
                   <<[value |-> IF faculty.f["name"] = Absent
                                  THEN "Unknown Faculty"
                                  ELSE faculty.f["name"]]>>
              [] d = "status" -> <<[value |-> TRUE]>>
              [] d = "body"   ->
                   <<[value |-> Get(faculty, "bio"), format |-> "basic_html"]>>
              [] OTHER        ->
                   <<[value |-> faculty.f[CHOOSE k \in mapped :
                                              field_mapping[k] = d]]>>]

\* a request without a JSON body
NoJson == [d \in {} |-> <<>>]

\* the json= argument of the stage's call: the credentials for the login,
\* node_data for the node POST
JsonOf(stage) ==
    CASE stage = "login" ->
           [d \in {"name", "pass"} |->
               IF d = "name" THEN config["DRUPAL_USERNAME"]
                             ELSE config["DRUPAL_PASSWORD"]]
      [] stage = "node"  -> node_data(faculty_list[i])
      [] OTHER           -> NoJson

\* variant: the node POST is sent without the session cookies
Request_NoCookies(stage) ==
    [stage |-> stage,
     jar   |-> IF stage = "token" THEN cookies ELSE {},
     token |-> IF stage = "node" THEN csrf_token ELSE <<>>,
     json  |-> JsonOf(stage)]

\* the request as it goes on the wire: stage, cookies, X-CSRF-Token and JSON
\* body sent
Request(stage) ==
    [stage |-> stage,
     jar   |-> IF stage \in {"token", "node"} THEN cookies ELSE {},
     token |-> IF stage = "node" THEN csrf_token ELSE <<>>,
     json  |-> JsonOf(stage)]

\* variant: the delay is slept after every failed attempt, the last included
MakeRequestAttempt_SleepsAfterLast(stage, o, after) ==
    /\ attempt \in 0..(MAX_RETRIES - 1)
    /\ reqs' = Append(reqs, Request(stage))
    /\ outcomes' = Append(outcomes, o)
    /\ IF ~AttemptFailed(o)
         THEN /\ ret' = Returned(o)
              /\ pc' = after
              /\ UNCHANGED <<attempt, retry_sleeps>>
         ELSE /\ retry_sleeps' = retry_sleeps + 1
              /\ IF RetriesLeft(attempt)
                   THEN /\ attempt' = attempt + 1
                        /\ UNCHANGED <<ret, pc>>
                   ELSE /\ ret' = NoResponse
                        /\ pc' = after
                        /\ UNCHANGED attempt

\* one iteration of the retry loop for the call of `stage`, the attempt coming
\* back with outcome o; the wrapper returns to position `after`
MakeRequestAttempt(stage, o, after) ==
    /\ attempt \in 0..(MAX_RETRIES - 1)
    /\ reqs' = Append(reqs, Request(stage))
    /\ outcomes' = Append(outcomes, o)
    /\ IF ~AttemptFailed(o)
         THEN /\ ret' = Returned(o)
              /\ pc' = after
              /\ UNCHANGED <<attempt, retry_sleeps>>
         ELSE IF RetriesLeft(attempt)
                THEN /\ retry_sleeps' = retry_sleeps + 1
                     /\ attempt' = attempt + 1
                     /\ UNCHANGED <<ret, pc>>
                ELSE /\ ret' = NoResponse
                     /\ pc' = after
                     /\ UNCHANGED <<attempt, retry_sleeps>>

----------------------------------------------------------------------------
(* validate_config and the start of main *)

\* missing_vars of validate_config
MissingVars == {v \in ConfigVars : Falsy(config[v])}

\* variant: only the source token is required
validate_config_TokenOnly == ~Falsy(config["FACULTY_API_TOKEN"])

validate_config == MissingVars = {}

\* a normal return of main(): the interpreter exits with status 0
ReturnFromMain(where) ==
    /\ pc' = where
    /\ exit_code' = 0

\* an exception nobody catches: traceback, exit status 1
Uncaught ==
    /\ pc' = "crashed"
    /\ exit_code' = 1

Init ==
    /\ config \in [ConfigVars -> ConfigValues]
    /\ pc = "start"
    /\ attempt = 0
    /\ outcomes = <<>>
    /\ retry_sleeps = 0
    /\ ret = NoResponse
    /\ reqs = <<>>
    /\ faculty_list = <<>>
    /\ cookies = {}
    /\ csrf_token = <<>>
    /\ success_count = 0
    /\ total_count = 0
    /\ i = 0
    /\ results = <<>>
    /\ pauses = 0
    /\ exit_code = -1

\* main(), lines 186-194: validate the configuration, then enter
\* get_faculty_data, which checks the token again before its request
ValidateConfig ==
    /\ pc = "start"
    /\ IF ~validate_config
         THEN /\ ReturnFromMain("config_failed")
              /\ UNCHANGED <<attempt, outcomes, retry_sleeps, faculty_list>>
         ELSE IF Falsy(config["FACULTY_API_TOKEN"])
                THEN /\ faculty_list' = <<>>
                     /\ ReturnFromMain("no_data")
                     /\ UNCHANGED <<attempt, outcomes, retry_sleeps>>
                ELSE /\ pc' = "fetch_call"
                     /\ StartCall
                     /\ UNCHANGED <<faculty_list, exit_code>>
    /\ UNCHANGED <<config, ret, reqs, cookies, csrf_token, success_count,
                   total_count, i, results, pauses>>

----------------------------------------------------------------------------
(* get_faculty_data *)

FetchAttempt ==
    /\ pc = "fetch_call"
    /\ \E o \in AttemptOutcomes("fetch") : MakeRequestAttempt("fetch", o, "fetch_ret")
    /\ UNCHANGED <<config, faculty_list, cookies, csrf_token, success_count,
                   total_count, i, results, pauses, exit_code>>

\* lines 80-88: what get_faculty_data makes of the wrapper's result.
\* response.json() raises JSONDecodeError on a body that is not JSON (caught);
\* len(data) in the log line raises TypeError on a number, null or boolean
\* (not caught); a value that is not a list is wrapped in a list.
FacultyDataRaises(r) == Truthy(r) /\ r.body.kind = "number"

FacultyData(r) ==
    IF ~Truthy(r) THEN <<>>
    ELSE CASE r.body.kind = "notjson" -> <<>>
           [] r.body.kind = "list"    -> r.body.list
           [] r.body.kind = "object"  -> r.body.list
           [] r.body.kind = "string"  -> <<NotADict>>
           [] OTHER                   -> <<>>

\* get_faculty_data returns and main() tests the list (lines 194-200)
GetFacultyDataReturn ==
    /\ pc = "fetch_ret"
    /\ IF FacultyDataRaises(ret)
         THEN /\ Uncaught
              /\ UNCHANGED faculty_list
         ELSE /\ faculty_list' = FacultyData(ret)
              /\ IF Len(FacultyData(ret)) = 0
                   THEN ReturnFromMain("no_data")
                   ELSE /\ pc' = "login_call"
                        /\ UNCHANGED exit_code
    /\ EndCall
    /\ UNCHANGED <<config, reqs, cookies, csrf_token, success_count,
                   total_count, i, results, pauses>>

----------------------------------------------------------------------------
(* authenticate_drupal *)

Whitespace == {" ", "\t", "\n", "\r"}

\* str.strip(): leading and trailing whitespace removed
RECURSIVE LStrip(_), RStrip(_)
LStrip(t) == IF t # <<>> /\ Head(t) \in Whitespace THEN LStrip(Tail(t)) ELSE t
RStrip(t) ==
    IF t # <<>> /\ t[Len(t)] \in Whitespace
      THEN RStrip(SubSeq(t, 1, Len(t) - 1))
      ELSE t
Strip(t) == RStrip(LStrip(t))

LoginAttempt ==
    /\ pc = "login_call"
    /\ \E o \in AttemptOutcomes("login") : MakeRequestAttempt("login", o, "login_ret")
    /\ UNCHANGED <<config, faculty_list, cookies, csrf_token, success_count,
                   total_count, i, results, pauses, exit_code>>

\* variant: the login result is not tested before the token is fetched
LoginReturn_Unchecked ==
    /\ pc = "login_ret"
    /\ cookies' = ret.body.jar
    /\ pc' = "token_call"
    /\ EndCall
    /\ UNCHANGED <<config, reqs, faculty_list, csrf_token, success_count,
                   total_count, i, results, pauses, exit_code>>

\* lines 107-113: no response gives (None, None), which main() takes as
\* failed authentication; otherwise the cookies are kept and the token fetched
LoginReturn ==
    /\ pc = "login_ret"
    /\ IF ~Truthy(ret)
         THEN /\ ReturnFromMain("auth_failed")
              /\ UNCHANGED cookies
         ELSE /\ cookies' = ret.body.jar
              /\ pc' = "token_call"
              /\ UNCHANGED exit_code
    /\ EndCall
    /\ UNCHANGED <<config, reqs, faculty_list, csrf_token, success_count,
                   total_count, i, results, pauses>>

TokenAttempt ==
    /\ pc = "token_call"
    /\ \E o \in AttemptOutcomes("token") : MakeRequestAttempt("token", o, "token_ret")
    /\ UNCHANGED <<config, faculty_list, cookies, csrf_token, success_count,
                   total_count, i, results, pauses, exit_code>>

\* lines 114-119 and main() lines 200-207: the stripped body is the token; an
\* absent or empty token aborts the run, otherwise the loop is set up
TokenReturn ==
    /\ pc = "token_ret"
    /\ IF ~Truthy(ret) \/ Strip(ret.body.text) = <<>>
         THEN /\ ReturnFromMain("auth_failed")
              /\ UNCHANGED <<csrf_token, success_count, total_count, i>>
         ELSE /\ csrf_token' = Strip(ret.body.text)
              /\ success_count' = 0
              /\ total_count' = Len(faculty_list)
              /\ i' = 1
              /\ pc' = "loop"
              /\ UNCHANGED exit_code
    /\ EndCall
    /\ UNCHANGED <<config, reqs, faculty_list, cookies, results, pauses>>

----------------------------------------------------------------------------
(* validate_faculty_data, create_drupal_node and the loop of main *)

\* variant: only a missing name is rejected, an empty one passes
validate_faculty_data_NoneOnly(faculty) == Get(faculty, "name") # None

\* validate_faculty_data: every required field has a truthy value
validate_faculty_data(faculty) == ~Falsy(Get(faculty, "name"))

\* line 175: response.json().get("nid", [{}])[0].get("value") raises on a
\* body that is not JSON (JSONDecodeError), on a top-level list
\* (AttributeError), on an empty nid list (IndexError), on a nid that is a
\* number (TypeError) and on nid elements that are not objects (AttributeError)
NodeIdRaises(body) ==
    body.kind \in {"notjson", "toplevel_list", "nid_empty", "nid_number",
                   "nid_scalars"}

\* line 174: `response and response.status_code == 201`
IsCreated(r) == Truthy(r) /\ r.status = 201

\* variant: the record is counted whatever create_drupal_node returned
FinishRecord_AlwaysCounts(result) ==
    /\ results' = Append(results, result)
    /\ success_count' = success_count + 1
    /\ pauses' = IF i < total_count THEN pauses + 1 ELSE pauses
    /\ i' = i + 1
    /\ pc' = "loop"

\* main() lines 212-217: count the result, pause unless this was the last
\* record, go on to the next record
FinishRecord(result) ==
    /\ results' = Append(results, result)
    /\ success_count' = IF result THEN success_count + 1 ELSE success_count
    /\ pauses' = IF i < total_count THEN pauses + 1 ELSE pauses
    /\ i' = i + 1
    /\ pc' = "loop"

\* main() lines 209-212 with create_drupal_node lines 135-172: take the next
\* record; a record that is not a mapping has no .get (AttributeError at line
\* 210); a record that fails validation is rejected before any request;
\* otherwise the node POST is started
ProcessRecord ==
    /\ pc = "loop"
    /\ i <= total_count
    /\ LET faculty == faculty_list[i] IN
         IF ~faculty.isdict
           THEN /\ Uncaught
                /\ UNCHANGED <<results, success_count, pauses, i, attempt,
                               outcomes, retry_sleeps>>
           ELSE IF ~validate_faculty_data(faculty)
                  THEN /\ FinishRecord(FALSE)
                       /\ UNCHANGED <<attempt, outcomes, retry_sleeps, exit_code>>
                  ELSE /\ pc' = "node_call"
                       /\ StartCall
                       /\ UNCHANGED <<results, success_count, pauses, i,
                                      exit_code>>
    /\ UNCHANGED <<config, ret, reqs, faculty_list, cookies, csrf_token,
                   total_count>>

NodeAttempt ==
    /\ pc = "node_call"
    /\ \E o \in AttemptOutcomes("node") : MakeRequestAttempt("node", o, "node_ret")
    /\ UNCHANGED <<config, faculty_list, cookies, csrf_token, success_count,
                   total_count, i, results, pauses, exit_code>>

\* create_drupal_node lines 174-181 and its return into the loop
NodeReturn ==
    /\ pc = "node_ret"
    /\ IF IsCreated(ret)
         THEN IF NodeIdRaises(ret.body)
                THEN /\ Uncaught
                     /\ UNCHANGED <<results, success_count, pauses, i>>
                ELSE /\ FinishRecord(TRUE)
                     /\ UNCHANGED exit_code
         ELSE /\ FinishRecord(FALSE)
              /\ UNCHANGED exit_code
    /\ EndCall
    /\ UNCHANGED <<config, reqs, faculty_list, cookies, csrf_token,
                   total_count>>

\* main() line 219: the loop is exhausted, the summary is logged
Report ==
    /\ pc = "loop"
    /\ i > total_count
    /\ ReturnFromMain("reported")
    /\ UNCHANGED <<config, attempt, outcomes, retry_sleeps, ret, reqs,
                   faculty_list, cookies, csrf_token, success_count,
                   total_count, i, results, pauses>>

----------------------------------------------------------------------------

Next ==
    \/ ValidateConfig
    \/ FetchAttempt
    \/ GetFacultyDataReturn
    \/ LoginAttempt
    \/ LoginReturn
    \/ TokenAttempt
    \/ TokenReturn
    \/ ProcessRecord
    \/ NodeAttempt
    \/ NodeReturn
    \/ Report

Spec == Init /\ [][Next]_vars

\* the interpreter runs main() to its end: every step that can be taken is
\* eventually taken
FairSpec == Spec /\ WF_vars(Next)

TypeOK ==
    /\ pc \in {"start", "fetch_call", "fetch_ret", "login_call", "login_ret",
               "token_call", "token_ret", "loop", "node_call", "node_ret",
               "config_failed", "no_data", "auth_failed", "reported", "crashed"}
    /\ attempt \in 0..(MAX_RETRIES - 1)
    /\ exit_code \in {-1, 0, 1}
    /\ Len(faculty_list) <= MaxRecords

----------------------------------------------------------------------------
(* Vocabulary of the properties *)

Terminal == {"config_failed", "no_data", "auth_failed", "reported", "crashed"}

CallStates == {"fetch_call", "login_call", "token_call", "node_call"}

\* the wrapper has just returned and its caller has not yet looked at the result
WrapperReturned == pc \in {"fetch_ret", "login_ret", "token_ret", "node_ret"}

\* number of requests of a stage issued so far
Issued(stage) == Cardinality({k \in 1..Len(reqs) : reqs[k].stage = stage})

\* an attempt that did not produce a usable response: transport error or an
\* HTTP error status
HttpError(o) == o.neterr \/ (o.status >= 400 /\ o.status <= 599)

----------------------------------------------------------------------------
\* C1: a wrapped call that fails on every attempt is attempted exactly
\* MAX_RETRIES times and the wrapper returns "no response"; a call that first
\* succeeds on attempt k is attempted exactly k times and the wrapper returns
\* that attempt's response.
C1_RetryCount ==
    WrapperReturned =>
        IF \A k \in 1..Len(outcomes) : HttpError(outcomes[k])
          THEN Len(outcomes) = MAX_RETRIES /\ ret = NoResponse
          ELSE LET k == CHOOSE j \in 1..Len(outcomes) :
                            /\ ~HttpError(outcomes[j])
                            /\ \A h \in 1..(j - 1) : HttpError(outcomes[h])
               IN  /\ k <= MAX_RETRIES
                   /\ Len(outcomes) = k
                   /\ ret = Returned(outcomes[k])

\* the node POST failed MAX_RETRIES times and the wrapper returned no response
C1_Witness ==
    /\ pc = "node_ret"
    /\ ret.none
    /\ Len(outcomes) = MAX_RETRIES
    /\ \A k \in 1..MAX_RETRIES : HttpError(outcomes[k])

----------------------------------------------------------------------------
\* C2 (as stated): the wrapper returns a response to its caller only if the
\* response's status is in 200..299.
C2_Only2xxReturned ==
    (WrapperReturned /\ ~ret.none) => (ret.status >= 200 /\ ret.status <= 299)

\* C2 (amended): every network error and every 4xx/5xx response is a failed
\* attempt that is retried while attempts remain (401 and 403 like 503); a
\* response is returned only if its status is not in 400..599, and it is the
\* response of the last attempt; responses with any other status, 2xx or not,
\* are returned at once.
C2_ErrorsRetried ==
    /\ pc \in CallStates =>
         /\ Len(outcomes) = attempt
         /\ \A k \in 1..Len(outcomes) : HttpError(outcomes[k])
    /\ WrapperReturned =>
         /\ Len(outcomes) \in 1..MAX_RETRIES
         /\ \A k \in 1..(Len(outcomes) - 1) : HttpError(outcomes[k])
         /\ ret.none <=> HttpError(outcomes[Len(outcomes)])
         /\ ret.none => Len(outcomes) = MAX_RETRIES
         /\ ~ret.none =>
              /\ ~(ret.status >= 400 /\ ret.status <= 599)
              /\ ret = Returned(outcomes[Len(outcomes)])

\* a login that met 401 and then 503 and was answered 304 on the third
\* attempt: the 304 response is what the wrapper returns
C2_Witness ==
    /\ pc = "login_ret"
    /\ Len(outcomes) = 3
    /\ outcomes[1].status = 401
    /\ outcomes[2].status = 503
    /\ ~ret.none
    /\ ret.status = 304

----------------------------------------------------------------------------
StageRank(stage) ==
    CASE stage = "fetch" -> 1
      [] stage = "login" -> 2
      [] stage = "token" -> 3
      [] stage = "node"  -> 4

\* the stage whose request a position of main() issues
StageOf(p) ==
    CASE p = "fetch_call" -> "fetch"
      [] p = "login_call" -> "login"
      [] p = "token_call" -> "token"
      [] p = "node_call"  -> "node"

\* some request of the stage has been issued
Sent(stage) == \E k \in 1..Len(reqs) : reqs[k].stage = stage

\* the requests issued so far are in the order fetch, login, token, node;
\* login only after a non-empty list was fetched; node only with a token
C3_Order ==
    /\ \A k \in 1..(Len(reqs) - 1) :
         StageRank(reqs[k].stage) <= StageRank(reqs[k + 1].stage)
    /\ Sent("login") => (Sent("fetch") /\ Len(faculty_list) > 0)
    /\ Sent("token") => Sent("login")
    /\ Sent("node") => (Sent("token") /\ csrf_token # <<>>)
    /\ pc \in {"config_failed", "no_data"} => ~Sent("login")
    /\ pc = "auth_failed" => ~Sent("node")

\* a failed stage ends the run on the spot, an ended run takes no further
\* step, and a request is only ever issued for the stage main() is at
C3_Gate ==
    /\ pc \notin Terminal
    /\ (pc = "fetch_ret" /\ (ret.none \/ ret.body.kind = "notjson"
                             \/ (ret.body.kind = "list" /\ ret.body.list = <<>>)))
         => (pc' = "no_data" /\ reqs' = reqs)
    /\ (pc = "login_ret" /\ ret.none) => (pc' = "auth_failed" /\ reqs' = reqs)
    /\ (pc = "token_ret" /\ ret.none) => (pc' = "auth_failed" /\ reqs' = reqs)
    /\ reqs' # reqs =>
         /\ pc \in CallStates
         /\ Len(reqs') = Len(reqs) + 1
         /\ SubSeq(reqs', 1, Len(reqs)) = reqs
         /\ reqs'[Len(reqs')].stage = StageOf(pc)

\* C3: requests are issued in the order source GET, login POST, token GET,
\* node POSTs, and no request of a later stage is issued unless every earlier
\* stage succeeded: after an empty or failed fetch nothing more is requested,
\* after an exhausted login no token or node request, after an exhausted
\* token fetch no node request.
C3_StageGating == []C3_Order /\ [][C3_Gate]_vars

\* the login failed on all attempts: the run has ended with the fetch and
\* MAX_RETRIES login requests on the wire and nothing else
C3_Witness ==
    /\ pc = "auth_failed"
    /\ Issued("login") = MAX_RETRIES
    /\ Issued("token") = 0
    /\ Issued("node") = 0
    /\ Len(reqs) = Issued("fetch") + MAX_RETRIES

----------------------------------------------------------------------------
\* C4: if FACULTY_API_TOKEN, DRUPAL_USERNAME or DRUPAL_PASSWORD is unset or
\* empty, the run ends at the configuration check and no HTTP request of any
\* kind is issued.
C4_NoRequestWithoutConfig ==
    (\E v \in ConfigVars : config[v] = None \/ config[v] = "") =>
        /\ reqs = <<>>
        /\ pc \in {"start", "config_failed"}

\* the run has ended at the configuration check because the password is empty
C4_Witness ==
    /\ pc = "config_failed"
    /\ config["FACULTY_API_TOKEN"] = "secret"
    /\ config["DRUPAL_USERNAME"] = "secret"
    /\ config["DRUPAL_PASSWORD"] = ""
    /\ reqs = <<>>

----------------------------------------------------------------------------
\* authentication has succeeded and the per-record loop has been entered
InLoop == pc \in {"loop", "node_call", "node_ret"}

\* a record (a JSON object) whose name is missing or empty
Nameless(faculty) ==
    faculty.isdict /\ (faculty.f["name"] = Absent \/ faculty.f["name"] = "")

\* number of TRUE entries of a sequence of booleans
Successes(rs) == Cardinality({k \in 1..Len(rs) : rs[k]})

\* C5 (as stated): once authentication has succeeded the batch is never
\* aborted: whatever the records and the responses are, the run does not end
\* before the final report, and the report is reached with every record
\* attempted exactly once, in list order.
C5_BatchNeverAborted ==
    /\ (total_count > 0 /\ pc \in Terminal) => pc = "reported"
    /\ pc = "reported" => (Len(results) = Len(faculty_list) /\ i = total_count + 1)

----------------------------------------------------------------------------
\* C6 (as stated): when the node POST returned 201, a body from which no
\* identifier can be read does not matter: create_drupal_node returns True
\* and the record is counted as a success.
C6_ParseFailureNonFatal ==
    [][(pc = "node_ret" /\ ~ret.none /\ ret.status = 201) =>
          /\ pc' = "loop"
          /\ results' = Append(results, TRUE)
          /\ success_count' = success_count + 1]_vars

----------------------------------------------------------------------------
\* a step that rejects the record at hand without a request and moves on
C7_RejectStep ==
    (pc = "loop" /\ i <= total_count /\ Nameless(faculty_list[i])) =>
        /\ reqs' = reqs
        /\ results' = Append(results, FALSE)
        /\ success_count' = success_count
        /\ i' = i + 1
        /\ pc' = "loop"

\* no node request is ever on the wire for a nameless record: the node
\* requests are at most MAX_RETRIES for each named record reached so far,
\* every nameless record processed is a failure, and the failures cover them
C7_NoRequestForNameless ==
    LET reached == IF Len(results) < total_count
                     THEN Len(results) + 1 ELSE total_count
        named == {k \in 1..reached : ~Nameless(faculty_list[k])}
        nameless == {k \in 1..Len(results) : Nameless(faculty_list[k])}
    IN  /\ Issued("node") <= MAX_RETRIES * Cardinality(named)
        /\ pc \in {"node_call", "node_ret"} => ~Nameless(faculty_list[i])
        /\ \A k \in nameless : results[k] = FALSE
        /\ (InLoop \/ pc = "reported") =>
             Len(results) - success_count >= Cardinality(nameless)

\* C7: a record whose name is missing or empty is rejected without any node
\* POST, counts as one failure and no success, and the loop goes on with the
\* next record.
C7_NamelessRejected == []C7_NoRequestForNameless /\ [][C7_RejectStep]_vars

\* two records, the second without a name, the first created with one POST:
\* the run reports 1/2
C7_Witness ==
    /\ pc = "reported"
    /\ faculty_list = <<Jane, NoName>>
    /\ success_count = 1
    /\ total_count = 2
    /\ results = <<TRUE, FALSE>>
    /\ Issued("node") = 1

----------------------------------------------------------------------------
\* C8 (as stated): create_drupal_node returns True if the wrapper returned a
\* response with status 201, and False on every other outcome.
C8_SuccessIff201 ==
    [][pc = "node_ret" =>
          /\ pc' = "loop"
          /\ results' = Append(results, ~ret.none /\ ret.status = 201)]_vars

----------------------------------------------------------------------------
\* the counters of main() agree with the fetched list and the results so far
C9_Counts ==
    (InLoop \/ pc = "reported") =>
        /\ total_count = Len(faculty_list)
        /\ Len(results) = i - 1
        /\ success_count = Successes(results)
        /\ 0 <= success_count
        /\ success_count <= Len(results)
        /\ Len(results) <= total_count
        /\ pc = "reported" => Len(results) = total_count

\* successes grows by at most one per record, and only with a record
C9_Step ==
    /\ success_count' \in {success_count, success_count + 1}
    /\ success_count' # success_count => Len(results') = Len(results) + 1
    /\ Len(results') \in {Len(results), Len(results) + 1}

\* C9: in the loop and at the report, total is the number of fetched
\* records, successes is the number of records whose creation returned
\* success, 0 <= successes <= records processed <= total, successes grows by
\* at most one per record, and the report is made when every record has been
\* processed.
C9_ReportCounts == []C9_Counts /\ [][InLoop => C9_Step]_vars

\* two records were fetched, the first could not be created, the second
\* could: the run reports 1/2
C9_Witness ==
    /\ pc = "reported"
    /\ total_count = 2
    /\ success_count = 1
    /\ results = <<FALSE, TRUE>>
    /\ faculty_list = <<Jane, Jane>>

----------------------------------------------------------------------------
\* C10 (as stated): a run that ends at the configuration check or at the
\* authentication exits with a non-zero status, and a run that ends with the
\* report exits with status 0.
C10_ExitStatus ==
    /\ pc \in {"config_failed", "auth_failed"} => exit_code > 0
    /\ pc = "reported" => exit_code = 0

----------------------------------------------------------------------------
\* the text of a token response without its whitespace
C11_Trimmed(t) == SelectSeq(t, LAMBDA c : c \notin {" ", "\t", "\n", "\r"})

\* every node POST issued so far carries the cookies and the token main()
\* holds, and once a node POST is issued only node POSTs follow
C11_NodeRequestsCarrySession ==
    /\ \A k \in 1..Len(reqs) :
         reqs[k].stage = "node" =>
             /\ reqs[k].jar = cookies
             /\ reqs[k].token = csrf_token
             /\ reqs[k].jar # {}
             /\ reqs[k].token # <<>>
    /\ \A k \in 1..(Len(reqs) - 1) :
         reqs[k].stage = "node" => reqs[k + 1].stage = "node"

\* the session is what the login and the token fetch returned, a successful
\* login or token fetch is never followed by another one, and in the loop the
\* session is not changed and only node POSTs are issued
C11_SessionStep ==
    /\ (pc = "login_ret" /\ ~ret.none) =>
           (pc' = "token_call" /\ cookies' = ret.body.jar)
    /\ (pc = "token_ret" /\ ~ret.none /\ C11_Trimmed(ret.body.text) # <<>>) =>
           (pc' = "loop" /\ csrf_token' = C11_Trimmed(ret.body.text))
    /\ pc # "login_call" => Issued("login")' = Issued("login")
    /\ pc # "token_call" => Issued("token")' = Issued("token")
    /\ pc # "login_ret" => cookies' = cookies
    /\ pc # "token_ret" => csrf_token' = csrf_token
    /\ pc' \in {"login_call", "login_ret"} => pc \in {"fetch_ret", "login_call"}
    /\ pc' \in {"token_call", "token_ret"} => pc \in {"login_ret", "token_call"}
    /\ InLoop =>
         /\ cookies' = cookies
         /\ csrf_token' = csrf_token
         /\ reqs' # reqs => reqs'[Len(reqs')].stage = "node"

\* C11: the session is established once per run and reused read-only: at
\* most one successful login and one successful token fetch, both before the
\* first node POST; once the loop has started no login or token request is
\* issued again, whatever the node POSTs are answered; every node POST
\* carries the cookies and the CSRF token that authentication returned.
C11_SessionReused == []C11_NodeRequestsCarrySession /\ [][C11_SessionStep]_vars

\* the first record's POST failed on every attempt and the second record's
\* POST has just been answered: one login, one token fetch, no
\* re-authentication, and all four node POSTs carry the session
C11_Witness ==
    /\ pc = "node_ret"
    /\ i = 2
    /\ results = <<FALSE>>
    /\ Issued("node") = MAX_RETRIES + 1
    /\ Issued("login") = 1
    /\ Issued("token") = 1
    /\ cookies = {"SESS"}
    /\ csrf_token = <<"t">>

----------------------------------------------------------------------------
\* C12 (as stated): get_faculty_data always returns a list: the parsed list
\* when the body is a JSON list, a one-element list when it is a single
\* object, and the empty list on a transport error, on retry exhaustion and
\* on a body that is not JSON.
C12_AlwaysReturnsList ==
    [][pc = "fetch_ret" =>
          /\ pc' # "crashed"
          /\ (~ret.none /\ ret.body.kind = "list") =>
                 faculty_list' = ret.body.list
          /\ (~ret.none /\ ret.body.kind = "object") =>
                 (Len(faculty_list') = 1 /\ faculty_list' = ret.body.list)
          /\ (ret.none \/ ret.body.kind = "notjson") =>
                 faculty_list' = <<>>]_vars

----------------------------------------------------------------------------
(* The per-record part of main() over every shape of record: each key absent, *)
(* empty or filled, starting where main() enters the loop with one record.    *)

\* a value for each key, all different
SampleValue ==
    [k \in Fields |->
        CASE k = "name"       -> "Jane Doe"
          [] k = "bio"        -> "PhD"
          [] k = "email"      -> "jane@uni.edu"
          [] k = "phone"      -> "555-0100"
          [] k = "department" -> "Physics"
          [] k = "title"      -> "Professor"
          [] k = "office"     -> "B12"]

\* every JSON object over the keys read, each key absent, empty or filled
AllRecords ==
    {[isdict |-> TRUE,
      f |-> [k \in Fields |-> IF k \in A THEN Absent
                              ELSE IF k \in E THEN "" ELSE SampleValue[k]]] :
        A \in SUBSET Fields, E \in SUBSET Fields}

\* main() at line 209 after one fetch, one login and one token request, with
\* one fetched record
InitPayload ==
    /\ config = [v \in ConfigVars |-> "secret"]
    /\ pc = "loop"
    /\ attempt = 0
    /\ outcomes = <<>>
    /\ retry_sleeps = 0
    /\ ret = NoResponse
    /\ faculty_list \in {<<r>> : r \in AllRecords}
    /\ cookies = {"SESS"}
    /\ csrf_token = <<"t">>
    /\ reqs = <<[stage |-> "fetch", jar |-> {}, token |-> <<>>, json |-> NoJson],
                [stage |-> "login", jar |-> {}, token |-> <<>>,
                 json |-> [d \in {"name", "pass"} |-> "secret"]],
                [stage |-> "token", jar |-> {"SESS"}, token |-> <<>>,
                 json |-> NoJson]>>
    /\ success_count = 0
    /\ total_count = 1
    /\ i = 1
    /\ results = <<>>
    /\ pauses = 0
    /\ exit_code = -1

NextPayload ==
    \/ ProcessRecord
    \/ NodeAttempt
    \/ NodeReturn
    \/ Report

SpecPayload == InitPayload /\ [][NextPayload]_vars

\* a key of the record carries a non-empty value
C13_Has(r, k) == r.f[k] # Absent /\ r.f[k] # ""

\* the reference mapping of a record to its node payload
C13_Reference(r) ==
    LET keys == {"type", "title", "status"}
                \cup (IF C13_Has(r, "bio") THEN {"body"} ELSE {})
                \cup (IF C13_Has(r, "email") THEN {"field_email"} ELSE {})
                \cup (IF C13_Has(r, "phone") THEN {"field_phone"} ELSE {})
                \cup (IF C13_Has(r, "department") THEN {"field_department"} ELSE {})
                \cup (IF C13_Has(r, "title") THEN {"field_job_title"} ELSE {})
                \cup (IF C13_Has(r, "office") THEN {"field_office_location"} ELSE {})
    IN  [d \in keys |->
            CASE d = "type"   -> <<[target_id |-> DRUPAL_CONTENT_TYPE]>>
              [] d = "title"  -> <<[value |-> r.f["name"]]>>
              [] d = "status" -> <<[value |-> TRUE]>>
              [] d = "body"   -> <<[value |-> r.f["bio"], format |-> "basic_html"]>>
              [] d = "field_email"           -> <<[value |-> r.f["email"]]>>
              [] d = "field_phone"           -> <<[value |-> r.f["phone"]]>>
              [] d = "field_department"      -> <<[value |-> r.f["department"]]>>
              [] d = "field_job_title"       -> <<[value |-> r.f["title"]]>>
              [] d = "field_office_location" -> <<[value |-> r.f["office"]]>>]

\* C13: for every record with a non-empty name the payload of its node POST
\* is the reference mapping: the configured content type, the name as title,
\* published, a basic_html body iff bio is non-empty, each of the five custom
\* fields iff its source value is non-empty, and no other key; and such a
\* record is not finished without a node POST.
C13_PayloadIsReference ==
    /\ \A k \in 1..Len(reqs) :
         reqs[k].stage = "node" =>
             /\ C13_Has(faculty_list[1], "name")
             /\ DOMAIN reqs[k].json = DOMAIN C13_Reference(faculty_list[1])
             /\ reqs[k].json = C13_Reference(faculty_list[1])
    /\ (C13_Has(faculty_list[1], "name") /\ pc \notin {"loop", "node_call"}) =>
           Issued("node") >= 1

\* a record with bio and job title filled, email and office empty, phone and
\* department absent: its POST went out with type, title, status, body and
\* field_job_title only
C13_Witness ==
    /\ pc = "node_ret"
    /\ Issued("node") = 1
    /\ faculty_list[1].f["name"] = "Jane Doe"
    /\ faculty_list[1].f["bio"] = "PhD"
    /\ faculty_list[1].f["title"] = "Professor"
    /\ faculty_list[1].f["email"] = ""
    /\ faculty_list[1].f["office"] = ""
    /\ faculty_list[1].f["phone"] = Absent
    /\ faculty_list[1].f["department"] = Absent
    /\ DOMAIN reqs[4].json = {"type", "title", "status", "body", "field_job_title"}
    /\ reqs[4].json["field_job_title"] = <<[value |-> "Professor"]>>

----------------------------------------------------------------------------
\* how far main() has come: the positions in program order, the loop
\* positions counted per record, the ends of the run last
C14_Position ==
    CASE pc = "start"      -> 0
      [] pc = "fetch_call" -> 1
      [] pc = "fetch_ret"  -> 2
      [] pc = "login_call" -> 3
      [] pc = "login_ret"  -> 4
      [] pc = "token_call" -> 5
      [] pc = "token_ret"  -> 6
      [] pc = "loop"       -> 7 + 3 * (i - 1)
      [] pc = "node_call"  -> 8 + 3 * (i - 1)
      [] pc = "node_ret"   -> 9 + 3 * (i - 1)
      [] OTHER             -> 11 + 3 * Len(faculty_list)

\* requests issued plus position reached: grows with every step of the run
C14_Measure == Len(reqs) + C14_Position

\* the request and sleep budgets, and a run that has not ended can step
C14_Budget ==
    /\ Issued("fetch") <= MAX_RETRIES
    /\ Issued("login") <= MAX_RETRIES
    /\ Issued("token") <= MAX_RETRIES
    /\ Issued("node") <= MAX_RETRIES * Len(faculty_list)
    /\ Issued("node") <= MAX_RETRIES * (IF i < total_count THEN i ELSE total_count)
    /\ Len(reqs) <= MAX_RETRIES * (3 + Len(faculty_list))
    /\ Len(outcomes) <= MAX_RETRIES
    /\ retry_sleeps <= MAX_RETRIES - 1
    /\ pc \in CallStates => retry_sleeps = Len(outcomes)
    /\ WrapperReturned => retry_sleeps = Len(outcomes) - 1
    /\ C14_Measure <= MAX_RETRIES * (3 + Len(faculty_list)) + 11 + 3 * Len(faculty_list)
    /\ pc \notin Terminal => ENABLED Next

\* C14: every run terminates (each step raises a bounded measure, and a run
\* that has not ended can always step) after at most MAX_RETRIES * (3 + N)
\* requests for N fetched records, at most MAX_RETRIES for the fetch, the
\* login, the token and each record's node POST; within one wrapped call the
\* delay is slept once between consecutive attempts and not after the last
\* attempt, failed or successful.
C14_TerminatesWithinBudget ==
    []C14_Budget /\ [][C14_Measure' > C14_Measure]_vars

\* both records' node POSTs failed on every attempt after the fetch, the
\* login and the token fetch each succeeded on the last attempt: the run has
\* ended with MAX_RETRIES * (3 + 2) requests
C14_Witness ==
    /\ pc = "reported"
    /\ Len(faculty_list) = 2
    /\ Len(reqs) = MAX_RETRIES * (3 + 2)
    /\ results = <<FALSE, FALSE>>

====
